---- MODULE Spec2Model ----
(***************************************************************************)
(* Model of extract_logs.py (class LogExtractor).                          *)
(*                                                                         *)
(* Bytes are integers 0..255, a bytes object / mmap is a sequence of       *)
(* bytes, a Python str is a sequence of code points.  A call that can      *)
(* raise returns a record [exc |-> name or "none", value |-> result].      *)
(* Offsets are 0-based as in the source; mm[p:p+1] is region[p + 1] here.  *)
(***************************************************************************)
EXTENDS Integers, Sequences, FiniteSets, TLC

VARIABLES
    archive,        \* what the zip URL delivers (input of the run)
    region,         \* bytes of the log file inside the archive (what mm maps)
    target_date,    \* argument of extract_logs
    pc,             \* position of extract_logs
    temp_dir,       \* self.temp_dir: "None" or "tmp"
    dirExists,      \* file system: does the directory self.temp_dir names exist
    log_file_path,  \* self.log_file_path: "None" or "log"
    mm,             \* the mmap object: "unmapped", "open", "closed"
    search,         \* outcome of the call of _binary_search_date at line 120
    output,         \* output/output_<date>.txt: [opened, text]
    printed,        \* last message of extract_logs on the console
    exc,            \* exception in flight / last raised, "none" if none
    cleanupCalls,   \* number of calls of self.cleanup()
    cleanupRaised,  \* did a call of self.cleanup() raise
    probe,          \* unit harness of _get_line_at_position: the offset probed
    lineResult      \* unit harness of _get_line_at_position: what it returned

vars == <<archive, region, target_date, pc, temp_dir, dirExists, log_file_path,
          mm, search, output, printed, exc, cleanupCalls, cleanupRaised,
          probe, lineResult>>

----------------------------------------------------------------------------
(* Bounds of the model *)

MaxLines == 3        \* lines in the log file of a run of extract_logs
MaxProbeLines == 3   \* lines in the region handed to _get_line_at_position

----------------------------------------------------------------------------
(* Bytes, str and the UTF-8 codec *)

NL == 10             \* b'\n'

DateLen == 10        \* line[:10]

Ok(v) == [exc |-> "none", value |-> v]
Raise(e) == [exc |-> e, value |-> <<>>]

\* b[a:b] of Python for 0 <= a, b <= len
Slice(b, lo, hi) == IF hi <= lo THEN <<>> ELSE SubSeq(b, lo + 1, hi)

IsCont(x) == x >= 128 /\ x <= 191

\* One UTF-8 sequence starting at the 1-based index i of b, as the strict
\* decoder of Python accepts it: n is its length in bytes, 0 if invalid.
DecodeAt(b, i) ==
    LET b0 == b[i]
        has(k) == i + k <= Len(b) /\ IsCont(b[i + k])
    IN  IF b0 < 128 THEN [n |-> 1, cp |-> b0]
        ELSE IF b0 >= 194 /\ b0 <= 223 /\ has(1)
            THEN [n |-> 2, cp |-> (b0 - 192) * 64 + (b[i + 1] - 128)]
        ELSE IF b0 >= 224 /\ b0 <= 239 /\ has(1) /\ has(2)
                /\ (b0 = 224 => b[i + 1] >= 160)
                /\ (b0 = 237 => b[i + 1] <= 159)
            THEN [n |-> 3, cp |-> (b0 - 224) * 4096 + (b[i + 1] - 128) * 64
                                  + (b[i + 2] - 128)]
        ELSE IF b0 >= 240 /\ b0 <= 244 /\ has(1) /\ has(2) /\ has(3)
                /\ (b0 = 240 => b[i + 1] >= 144)
                /\ (b0 = 244 => b[i + 1] <= 143)
            THEN [n |-> 4, cp |-> (b0 - 240) * 262144 + (b[i + 1] - 128) * 4096
                                  + (b[i + 2] - 128) * 64 + (b[i + 3] - 128)]
        ELSE [n |-> 0, cp |-> 0]

RECURSIVE DecodeFrom(_, _, _)
DecodeFrom(b, i, acc) ==
    IF i > Len(b) THEN Ok(acc)
    ELSE LET d == DecodeAt(b, i)
         IN  IF d.n = 0 THEN Raise("UnicodeDecodeError")
             ELSE DecodeFrom(b, i + d.n, Append(acc, d.cp))

\* bytes.decode('utf-8')
Utf8Decode(b) == DecodeFrom(b, 1, <<>>)

\* len(chr(cp).encode('utf-8'))
CpLen(cp) == IF cp < 128 THEN 1 ELSE IF cp < 2048 THEN 2 ELSE IF cp < 65536 THEN 3 ELSE 4

RECURSIVE Utf8Len(_)
\* len(s.encode('utf-8'))
Utf8Len(s) == IF s = <<>> THEN 0 ELSE CpLen(Head(s)) + Utf8Len(Tail(s))

\* s[:n]
Take(s, n) == IF Len(s) <= n THEN s ELSE SubSeq(s, 1, n)

\* s.startswith(t)
StartsWith(s, t) == Len(t) <= Len(s) /\ SubSeq(s, 1, Len(t)) = t

\* a < b on str: lexicographic by code point, a proper prefix is smaller
StrLess(a, b) ==
    \E i \in 1..Len(b) :
        /\ i - 1 <= Len(a)
        /\ \A j \in 1..(i - 1) : a[j] = b[j]
        /\ (i > Len(a) \/ a[i] < b[i])

----------------------------------------------------------------------------
(* LogExtractor._get_line_at_position *)

RECURSIVE LineStart(_, _)
\* while position > 0 and mm[position - 1:position] != b'\n': position -= 1
LineStart(m, position) ==
    IF position > 0 /\ m[position] # NL THEN LineStart(m, position - 1) ELSE position

RECURSIVE LineEnd(_, _)
\* while position < len(mm) and mm[position:position + 1] != b'\n': position += 1
LineEnd(m, position) ==
    IF position < Len(m) /\ m[position + 1] # NL THEN LineEnd(m, position + 1) ELSE position

\* A plausible slip: the probe on a terminator byte is taken as the start of
\* a line (the backward scan tests the byte at the probe, not the one before).
_get_line_at_position_skipback(m, position) ==
    LET line_start == IF position < Len(m) /\ m[position + 1] = NL
                      THEN position ELSE LineStart(m, position)
    IN  Utf8Decode(Slice(m, line_start, LineEnd(m, line_start)))

_get_line_at_position(m, position) ==
    LET line_start == LineStart(m, position)
    IN  Utf8Decode(Slice(m, line_start, LineEnd(m, line_start)))

----------------------------------------------------------------------------
(* LogExtractor._binary_search_date *)

\* Python values as far as line 82 needs them: len(mm) is an int
PyInt(n) == [type |-> "int", val |-> n]

\* a, b = v : v must be an iterable of exactly two items
PyUnpack2(v) ==
    IF v.type = "tuple"
    THEN IF Len(v.items) = 2
         THEN [exc |-> "none", a |-> v.items[1], b |-> v.items[2]]
         ELSE [exc |-> "ValueError", a |-> 0, b |-> 0]
    ELSE [exc |-> "TypeError", a |-> 0, b |-> 0]

RECURSIVE SearchLoop(_, _, _, _, _)
\* the while loop of lines 85-101 and the return of line 103; the call of
\* _get_line_at_position at line 89 is outside the try of line 90
SearchLoop(m, target, left, right, first_occurrence) ==
    IF left < right
    THEN LET mid == (left + right) \div 2
             line == _get_line_at_position(m, mid)
         IN  IF line.exc # "none" THEN [exc |-> line.exc, value |-> first_occurrence]
             ELSE LET line_date == Take(line.value, DateLen)
                  IN  IF line_date = target
                      THEN SearchLoop(m, target, left, mid, mid)
                      ELSE IF StrLess(line_date, target)
                      THEN SearchLoop(m, target, mid + 1, right, first_occurrence)
                      ELSE SearchLoop(m, target, left, mid, first_occurrence)
    ELSE [exc |-> "none", value |-> first_occurrence]

_binary_search_date(m, target) ==
    LET lr == PyUnpack2(PyInt(Len(m)))      \* left, right = len(mm)
    IN  IF lr.exc # "none" THEN [exc |-> lr.exc, value |-> -1]
        ELSE SearchLoop(m, target, lr.a.val, lr.b.val, -1)

----------------------------------------------------------------------------
(* LogExtractor.extract_logs: the forward scan of lines 129-137 *)

RECURSIVE ForwardScan(_, _, _, _)
ForwardScan(m, position, target, written) ==
    IF position < Len(m)
    THEN LET line == _get_line_at_position(m, position)
         IN  IF line.exc # "none" THEN [exc |-> line.exc, value |-> written]
             ELSE IF ~StartsWith(line.value, target)
             THEN [exc |-> "none", value |-> written]
             ELSE ForwardScan(m, position + Utf8Len(line.value) + 1, target,
                              written \o line.value \o <<NL>>)
    ELSE [exc |-> "none", value |-> written]

----------------------------------------------------------------------------
(* LogExtractor.cleanup *)

\* shutil.rmtree(path): removes the tree, raises when there is none
rmtree(exists) ==
    IF exists THEN [exists |-> FALSE, exc |-> "none"]
    ELSE [exists |-> FALSE, exc |-> "FileNotFoundError"]

\* A plausible slip: cleanup without the guard of line 59.
cleanup_unguarded(td, exists) == rmtree(td # "None" /\ exists)

cleanup(td, exists) ==
    IF td # "None" /\ exists THEN rmtree(exists)
    ELSE [exists |-> exists, exc |-> "none"]

----------------------------------------------------------------------------
(* Inputs *)

\* "2024-01-0k" as bytes
Date(k) == <<50, 48, 50, 52, 45, 48, 49, 45, 48, 48 + k>>

FileDates == {1, 2, 4}
TargetDates == {0, 1, 2, 3, 4, 5}

\* what follows the date on a line: nothing, " é", and a byte that is not UTF-8
Suffixes == {<<>>, <<32, 195, 169>>, <<32, 255>>}

LogLines == {Date(k) \o s : k \in FileDates, s \in Suffixes}

\* lines that _get_line_at_position is probed on
ProbeLines == {<<>>, <<97>>, <<97, 98>>, <<195, 169>>, <<98, 195, 169>>, <<255>>}

SeqsUpTo(S, n) == UNION {[1..k -> S] : k \in 0..n}

RECURSIVE Join(_, _)
\* the file whose lines are ls; the last line ends in a newline iff trailing
Join(ls, trailing) ==
    IF ls = <<>> THEN <<>>
    ELSE IF Len(ls) = 1 THEN (IF trailing THEN ls[1] \o <<NL>> ELSE ls[1])
    ELSE ls[1] \o <<NL>> \o Join(Tail(ls), trailing)

Regions(S, n) == {Join(ls, t) : ls \in SeqsUpTo(S, n), t \in BOOLEAN}

Archives == {"mkdtemp_fails", "download_fails", "bad_zip", "no_log_file", "ok"}

NoSearch == [exc |-> "notrun", value |-> -1]
NoOutput == [opened |-> FALSE, text |-> <<>>]
NoLine == [exc |-> "notrun", value |-> <<>>]

----------------------------------------------------------------------------
(* extract_logs as a state machine *)

\* LogExtractor.__init__ and the arguments of the run
Init ==
    /\ archive \in Archives
    /\ region \in (IF archive = "ok" THEN Regions(LogLines, MaxLines) ELSE {<<>>})
    /\ target_date \in {Date(k) : k \in TargetDates}
    /\ pc = "start"
    /\ temp_dir = "None"
    /\ dirExists = FALSE
    /\ log_file_path = "None"
    /\ mm = "unmapped"
    /\ search = NoSearch
    /\ output = NoOutput
    /\ printed = "none"
    /\ exc = "none"
    /\ cleanupCalls = 0
    /\ cleanupRaised = FALSE
    /\ probe = 0
    /\ lineResult = NoLine

\* line 109: download_and_extract, its except clause included
DownloadAndExtract ==
    /\ pc = "start"
    /\ IF archive = "ok"
       THEN /\ temp_dir' = "tmp"
            /\ dirExists' = TRUE
            /\ log_file_path' = "log"
            /\ pc' = "process"
            /\ UNCHANGED <<exc, cleanupCalls, cleanupRaised>>
       ELSE LET td == IF archive = "mkdtemp_fails" THEN "None" ELSE "tmp"
                c == cleanup(td, td # "None")
            IN  /\ temp_dir' = td
                /\ dirExists' = c.exists
                /\ log_file_path' = "None"
                /\ cleanupCalls' = cleanupCalls + 1
                /\ cleanupRaised' = (cleanupRaised \/ c.exc # "none")
                /\ exc' = IF c.exc # "none" THEN c.exc ELSE "Exception"
                /\ pc' = "except"
    /\ UNCHANGED <<archive, region, target_date, mm, search, output, printed,
                   probe, lineResult>>

\* lines 111-117: open the log file and map it; mmap refuses an empty file
MapFile ==
    /\ pc = "process"
    /\ IF Len(region) = 0
       THEN /\ exc' = "ValueError"
            /\ pc' = "except"
            /\ mm' = mm
       ELSE /\ mm' = "open"
            /\ pc' = "search"
            /\ exc' = exc
    /\ UNCHANGED <<archive, region, target_date, temp_dir, dirExists,
                   log_file_path, search, output, printed, cleanupCalls,
                   cleanupRaised, probe, lineResult>>

\* lines 120-141: the search, the NotFound return, the forward scan, mm.close()
SearchAndExtract ==
    /\ pc = "search"
    /\ LET s == _binary_search_date(region, target_date)
       IN  /\ search' = s
           /\ IF s.exc # "none"
              THEN /\ exc' = s.exc
                   /\ pc' = "except"
                   /\ UNCHANGED <<mm, output, printed>>
              ELSE IF s.value = -1
              THEN /\ printed' = "NoLogs"
                   /\ pc' = "finally"
                   /\ UNCHANGED <<mm, output, exc>>
              ELSE LET w == ForwardScan(region, s.value, target_date, <<>>)
                   IN  /\ output' = [opened |-> TRUE, text |-> w.value]
                       /\ IF w.exc # "none"
                          THEN /\ exc' = w.exc
                               /\ pc' = "except"
                               /\ UNCHANGED <<mm, printed>>
                          ELSE /\ mm' = "closed"
                               /\ printed' = "Success"
                               /\ pc' = "finally"
                               /\ exc' = exc
    /\ UNCHANGED <<archive, region, target_date, temp_dir, dirExists,
                   log_file_path, cleanupCalls, cleanupRaised, probe, lineResult>>

\* lines 143-144: except Exception as e: print(f"Error: ...")
ExceptHandler ==
    /\ pc = "except"
    /\ printed' = "Error"
    /\ pc' = "finally"
    /\ UNCHANGED <<archive, region, target_date, temp_dir, dirExists,
                   log_file_path, mm, search, output, exc, cleanupCalls,
                   cleanupRaised, probe, lineResult>>

\* lines 145-146: finally: self.cleanup()
Finally ==
    /\ pc = "finally"
    /\ LET c == cleanup(temp_dir, dirExists)
       IN  /\ dirExists' = c.exists
           /\ cleanupCalls' = cleanupCalls + 1
           /\ cleanupRaised' = (cleanupRaised \/ c.exc # "none")
           /\ exc' = IF c.exc # "none" THEN c.exc ELSE exc
    /\ pc' = "returned"
    /\ UNCHANGED <<archive, region, target_date, temp_dir, log_file_path, mm,
                   search, output, printed, probe, lineResult>>

Next == DownloadAndExtract \/ MapFile \/ SearchAndExtract \/ ExceptHandler \/ Finally

Spec == Init /\ [][Next]_vars

----------------------------------------------------------------------------
(* _get_line_at_position on its own: any region, any offset in 0..len *)

InitLine ==
    /\ archive = "ok"
    /\ region \in Regions(ProbeLines, MaxProbeLines)
    /\ target_date = Date(1)
    /\ pc = "unit"
    /\ temp_dir = "None"
    /\ dirExists = FALSE
    /\ log_file_path = "None"
    /\ mm = "open"
    /\ search = NoSearch
    /\ output = NoOutput
    /\ printed = "none"
    /\ exc = "none"
    /\ cleanupCalls = 0
    /\ cleanupRaised = FALSE
    /\ probe = 0
    /\ lineResult = NoLine

GetLine ==
    /\ pc = "unit"
    /\ \E p \in 0..Len(region) :
        /\ probe' = p
        /\ lineResult' = _get_line_at_position(region, p)
    /\ UNCHANGED <<archive, region, target_date, pc, temp_dir, dirExists,
                   log_file_path, mm, search, output, printed, exc,
                   cleanupCalls, cleanupRaised>>

NextLine == GetLine

SpecLine == InitLine /\ [][NextLine]_vars

----------------------------------------------------------------------------
(* Vocabulary of the properties: the lines of a region, stated from the    *)
(* definition of a line (a maximal span without terminator), not from the  *)
(* scans of the code.                                                      *)

\* 0-based offsets at which a line starts
Starts(m) == {s \in 0..(Len(m) - 1) : s = 0 \/ m[s] = NL}

\* offset of the terminator of the line starting at s, or the region length
EndOf(m, s) ==
    CHOOSE e \in s..Len(m) :
        /\ e = Len(m) \/ m[e + 1] = NL
        /\ \A j \in (s + 1)..e : m[j] # NL

LineBytes(m, s) == Slice(m, s, EndOf(m, s))

\* the date key of the line starting at s
KeyAt(m, s) == Take(LineBytes(m, s), DateLen)

Sorted(m) ==
    \A s1, s2 \in Starts(m) : s1 < s2 => ~StrLess(KeyAt(m, s2), KeyAt(m, s1))

Matches(m, t) == {s \in Starts(m) : KeyAt(m, s) = t}

FirstMatch(m, t) == CHOOSE s \in Matches(m, t) : \A u \in Matches(m, t) : s <= u

Decodable(b) == Utf8Decode(b).exc = "none"

AllDecodable(m) == \A s \in Starts(m) : Decodable(LineBytes(m, s))

NoEmptyLines(m) == \A s \in Starts(m) : EndOf(m, s) > s

RECURSIVE TextOf(_, _)
\* the lines starting at the offsets S, in file order, each followed by '\n'
TextOf(m, S) ==
    IF S = {} THEN <<>>
    ELSE LET s == CHOOSE x \in S : \A y \in S : x <= y
         IN  Utf8Decode(LineBytes(m, s)).value \o <<NL>> \o TextOf(m, S \ {s})

\* the matching lines that precede the first undecodable matching line
BeforeBadMatch(m, t) ==
    {s \in Matches(m, t) :
        \A u \in Matches(m, t) : u <= s => Decodable(LineBytes(m, u))}

SearchRan == search.exc # "notrun"

Returned == pc = "returned"

----------------------------------------------------------------------------
(* Properties *)

\* C1: on a sorted region of decodable lines that holds the target date,
\* _binary_search_date returns the start offset of the first line with that
\* date: not -1, not an error, not the offset of a later matching line.
C1_FirstOccurrence ==
    (SearchRan /\ Sorted(region) /\ AllDecodable(region)
        /\ Matches(region, target_date) # {})
    => (search.exc = "none" /\ search.value = FirstMatch(region, target_date))

\* C2: on a sorted region of decodable lines that holds the target date,
\* extract_logs has written exactly the lines with the target date, each
\* once, in file order, each followed by a newline, and nothing else.
C2_ExactRun ==
    (Returned /\ archive = "ok" /\ Sorted(region) /\ AllDecodable(region)
        /\ Matches(region, target_date) # {})
    => (output.opened
        /\ output.text = TextOf(region, Matches(region, target_date)))

\* C3: on a non-empty sorted region without the target date the search
\* yields -1, extract_logs reports 'No logs found', raises no error and never
\* opens the output file.
C3_NotFound ==
    (Returned /\ archive = "ok" /\ region # <<>> /\ Sorted(region)
        /\ AllDecodable(region) /\ Matches(region, target_date) = {})
    => (search = Ok(-1) /\ printed = "NoLogs" /\ exc = "none" /\ ~output.opened)

\* C4: when a probe of the search lands on an undecodable line (the first
\* probe, at len // 2, does so here), the search goes on and surfaces no error.
C4_ProbeDecodeFailureSwallowed ==
    (SearchRan
        /\ \E s \in Starts(region) :
            /\ s <= Len(region) \div 2
            /\ Len(region) \div 2 <= EndOf(region, s)
            /\ ~Decodable(LineBytes(region, s)))
    => search.exc = "none"

\* C5: once the file has been mapped, the mapping has been closed by
\* mm.close() when extract_logs returns, on every exit path.
C5_MapReleased == (Returned /\ mm # "unmapped") => mm = "closed"

\* C6: in a region without empty lines every offset p of a line, from its
\* start up to and including its terminator (or the region length), resolves
\* to that line; the result holds no terminator.
C6_ProbeResolvesToItsLine ==
    (lineResult.exc # "notrun" /\ NoEmptyLines(region))
    => /\ \A s \in Starts(region) :
            (s <= probe /\ probe <= EndOf(region, s))
            => lineResult = Utf8Decode(LineBytes(region, s))
       /\ \A i \in 1..Len(lineResult.value) : lineResult.value[i] # NL

\* C6 witness: a probe exactly on a terminator byte that is not the first
\* byte, resolved to a decoded non-empty line.
C6_Witness ==
    /\ lineResult.exc = "none"
    /\ NoEmptyLines(region)
    /\ probe > 0 /\ probe < Len(region) /\ region[probe + 1] = NL
    /\ lineResult.value # <<>>
    /\ Cardinality(Starts(region)) >= 2

\* C7: an undecodable line inside the run of target-date lines ends the run
\* in the error outcome, and the matching lines before it are in the output.
C7_PartialOutputKept ==
    (Returned /\ archive = "ok" /\ Sorted(region)
        /\ BeforeBadMatch(region, target_date) # {}
        /\ BeforeBadMatch(region, target_date) # Matches(region, target_date))
    => (printed = "Error" /\ output.opened
        /\ output.text = TextOf(region, BeforeBadMatch(region, target_date)))

\* C8: for an empty log file the outcome is 'No logs found', not the error
\* outcome.
C8_EmptyFileNotFound ==
    (Returned /\ archive = "ok" /\ region = <<>>) => printed = "NoLogs"

\* C10: when extract_logs returns, the temporary directory does not exist,
\* whatever path was taken, and no call of cleanup has raised, the second
\* call on one run included.
C10_TempDirRemoved == (Returned => ~dirExists) /\ ~cleanupRaised

\* C10 witness: a run that created the directory and called cleanup twice.
C10_Witness == Returned /\ temp_dir = "tmp" /\ cleanupCalls = 2

====
